---------------------------- MODULE Spec2Model ----------------------------
(***************************************************************************)
(* A model of call-audit (src/app.py): the Flask routes /set_api_key,      *)
(* /audit, /analyze and /logout, the process-wide api_key_storage, the     *)
(* upload folder, and CallAuditApp.analyze_transcript with the JSON        *)
(* encoding and decoding it relies on.                                     *)
(*                                                                         *)
(* Python values are records [kind, val].  A string that the program       *)
(* parses (the custom_criteria form field, the completion's message        *)
(* content) is a "text": the sequence of its JSON tokens.  Every other     *)
(* string is an atom of kind "str".                                        *)
(***************************************************************************)
EXTENDS Integers, Sequences, FiniteSets, TLC

(***************************************************************************)
(* Python values                                                           *)
(***************************************************************************)
PyNone == [kind |-> "None", val |-> <<>>]
PyBool(b) == [kind |-> "bool", val |-> b]
PyInt(n) == [kind |-> "int", val |-> n]
PyStr(s) == [kind |-> "str", val |-> s]
PyText(toks) == [kind |-> "text", val |-> toks]
PyList(elems) == [kind |-> "list", val |-> elems]
\* A dict is the sequence of its <<key, value>> pairs in insertion order.
PyDict(pairs) == [kind |-> "dict", val |-> pairs]

\* d[k] = v on the pair sequence of a dict: an existing key keeps its place.
DictSet(pairs, k, v) ==
  IF \E i \in 1..Len(pairs) : pairs[i][1] = k
  THEN [i \in 1..Len(pairs) |-> IF pairs[i][1] = k THEN <<k, v>> ELSE pairs[i]]
  ELSE Append(pairs, <<k, v>>)

DictKeys(d) == {d.val[i][1] : i \in 1..Len(d.val)}

\* bool(v), as `if criteria_text:` and `custom_criteria if custom_criteria
\* else None` evaluate it.
Truthy(v) ==
  CASE v.kind = "None" -> FALSE
    [] v.kind = "bool" -> v.val
    [] v.kind = "int" -> v.val # 0
    [] v.kind = "str" -> v.val # ""
    [] OTHER -> Len(v.val) > 0

\* The atoms of kind "str" that have 'error' as a substring.
StrsContainingError == {"error", "error: quota exceeded"}

\* `'error' in v`: a key of a dict, an element of a list, a substring of a
\* string; any other operand raises TypeError.
ContainsError(v) ==
  CASE v.kind = "dict" -> [exc |-> "none", val |-> "error" \in DictKeys(v)]
    [] v.kind = "list" ->
         [exc |-> "none", val |-> \E i \in 1..Len(v.val) : v.val[i] = PyStr("error")]
    [] v.kind = "str" -> [exc |-> "none", val |-> v.val \in StrsContainingError]
    [] OTHER -> [exc |-> "TypeError", val |-> FALSE]

(***************************************************************************)
(* JSON texts: sequences of tokens                                         *)
(***************************************************************************)
Tok(k, v) == [tk |-> k, tv |-> v]
LBRACE == Tok("p", "{")
RBRACE == Tok("p", "}")
LBRACK == Tok("p", "[")
RBRACK == Tok("p", "]")
COLON == Tok("p", ":")
COMMA == Tok("p", ",")
\* a string literal, a number literal, one of true/false/null, a bare word
TStr(s) == Tok("s", s)
TNum(d) == Tok("n", d)
TWord(w) == Tok("w", w)
TJunk(w) == Tok("x", w)

Digits == <<"0", "1", "2", "3", "4", "5", "6", "7", "8", "9">>
IntOfDigit(d) == CHOOSE n \in 0..9 : Digits[n + 1] = d
DigitOfInt(n) == Digits[n + 1]

\* json.dumps
RECURSIVE Dumps(_)
RECURSIVE DumpItems(_, _)
RECURSIVE DumpMembers(_, _)
DumpItems(elems, i) ==
  IF i > Len(elems) THEN <<>>
  ELSE (IF i > 1 THEN <<COMMA>> ELSE <<>>) \o Dumps(elems[i]) \o DumpItems(elems, i + 1)
DumpMembers(pairs, i) ==
  IF i > Len(pairs) THEN <<>>
  ELSE (IF i > 1 THEN <<COMMA>> ELSE <<>>)
       \o <<TStr(pairs[i][1]), COLON>> \o Dumps(pairs[i][2])
       \o DumpMembers(pairs, i + 1)
Dumps(v) ==
  CASE v.kind = "None" -> <<TWord("null")>>
    [] v.kind = "bool" -> <<TWord(IF v.val THEN "true" ELSE "false")>>
    [] v.kind = "int" -> <<TNum(DigitOfInt(v.val))>>
    [] v.kind = "str" -> <<TStr(v.val)>>
    [] v.kind = "list" -> <<LBRACK>> \o DumpItems(v.val, 1) \o <<RBRACK>>
    [] v.kind = "dict" -> <<LBRACE>> \o DumpMembers(v.val, 1) \o <<RBRACE>>

\* The JSON decoder: a value starting at token i, and the index after it.
ParseOk(v, n) == [ok |-> TRUE, val |-> v, next |-> n]
ParseFail == [ok |-> FALSE, val |-> PyNone, next |-> 0]

RECURSIVE ParseValue(_, _)
RECURSIVE ParseMembers(_, _, _)
RECURSIVE ParseItems(_, _, _)
ParseMembers(t, i, acc) ==
  IF i + 1 > Len(t) \/ t[i].tk # "s" \/ t[i + 1] # COLON THEN ParseFail
  ELSE LET v == ParseValue(t, i + 2)
           acc2 == DictSet(acc, t[i].tv, v.val)
       IN  IF ~v.ok \/ v.next > Len(t) THEN ParseFail
           ELSE IF t[v.next] = RBRACE THEN ParseOk(PyDict(acc2), v.next + 1)
           ELSE IF t[v.next] = COMMA THEN ParseMembers(t, v.next + 1, acc2)
           ELSE ParseFail
ParseItems(t, i, acc) ==
  LET v == ParseValue(t, i)
      acc2 == Append(acc, v.val)
  IN  IF ~v.ok \/ v.next > Len(t) THEN ParseFail
      ELSE IF t[v.next] = RBRACK THEN ParseOk(PyList(acc2), v.next + 1)
      ELSE IF t[v.next] = COMMA THEN ParseItems(t, v.next + 1, acc2)
      ELSE ParseFail
ParseValue(t, i) ==
  IF i > Len(t) THEN ParseFail
  ELSE CASE t[i].tk = "s" -> ParseOk(PyStr(t[i].tv), i + 1)
         [] t[i].tk = "n" -> ParseOk(PyInt(IntOfDigit(t[i].tv)), i + 1)
         [] t[i] = TWord("null") -> ParseOk(PyNone, i + 1)
         [] t[i] = TWord("true") -> ParseOk(PyBool(TRUE), i + 1)
         [] t[i] = TWord("false") -> ParseOk(PyBool(FALSE), i + 1)
         [] t[i] = LBRACE ->
              IF i + 1 <= Len(t) /\ t[i + 1] = RBRACE
              THEN ParseOk(PyDict(<<>>), i + 2)
              ELSE ParseMembers(t, i + 1, <<>>)
         [] t[i] = LBRACK ->
              IF i + 1 <= Len(t) /\ t[i + 1] = RBRACK
              THEN ParseOk(PyList(<<>>), i + 2)
              ELSE ParseItems(t, i + 1, <<>>)
         [] OTHER -> ParseFail

\* json.loads(s): TypeError unless s is a string, JSONDecodeError unless the
\* whole text is one JSON value.
JsonLoads(s) ==
  IF s.kind # "text" THEN [exc |-> "TypeError", val |-> PyNone]
  ELSE LET r == ParseValue(s.val, 1)
       IN  IF r.ok /\ r.next = Len(s.val) + 1
           THEN [exc |-> "none", val |-> r.val]
           ELSE [exc |-> "JSONDecodeError", val |-> PyNone]

(***************************************************************************)
(* Dict access, as the results template uses it                            *)
(***************************************************************************)
DictHas(d, k) == d.kind = "dict" /\ k \in DictKeys(d)
DictGet(d, k) == d.val[CHOOSE i \in 1..Len(d.val) : d.val[i][1] = k][2]

\* `x < 4` in the template: defined for numbers only.
Comparable(v) == v.kind \in {"int", "bool"}
\* `{% for y in x %}` over an attribute: an absent attribute iterates as
\* empty, a present one must be iterable.
IterableAttr(d, k) ==
  DictHas(d, k) => DictGet(d, k).kind \in {"list", "dict", "str"}
\* One entry of criteria_scores as results.html renders it: details.score is
\* compared, details.examples is iterated when truthy.
RendersDetails(v) ==
  /\ DictHas(v, "score") /\ Comparable(DictGet(v, "score"))
  /\ (DictHas(v, "examples") /\ Truthy(DictGet(v, "examples")))
       => IterableAttr(v, "examples")
\* render_template('results.html', analysis=a) completes without raising.
RendersResults(a) ==
  /\ DictHas(a, "overall_score") /\ Comparable(DictGet(a, "overall_score"))
  /\ IterableAttr(a, "strengths")
  /\ IterableAttr(a, "areas_for_improvement")
  /\ DictHas(a, "criteria_scores")
  /\ DictGet(a, "criteria_scores").kind = "dict"
  /\ \A i \in 1..Len(DictGet(a, "criteria_scores").val) :
       RendersDetails(DictGet(a, "criteria_scores").val[i][2])

(***************************************************************************)
(* CallAuditApp                                                            *)
(***************************************************************************)
default_criteria ==
  PyDict(<< <<"greeting", PyStr("Did the agent use a proper greeting and introduce themselves?")>>,
            <<"listening", PyStr("Did the agent actively listen to the customer's concerns?")>>,
            <<"problem_solving", PyStr("Did the agent demonstrate effective problem-solving skills?")>>,
            <<"knowledge", PyStr("Did the agent demonstrate sufficient product/service knowledge?")>>,
            <<"empathy", PyStr("Did the agent show empathy and understanding?")>>,
            <<"clarity", PyStr("Was the agent's communication clear and easy to understand?")>>,
            <<"resolution", PyStr("Did the agent properly resolve the customer's issue?")>>,
            <<"closing", PyStr("Did the agent provide a proper closing to the call?")>>,
            <<"adherence_to_protocol", PyStr("Did the agent follow company protocols and procedures?")>>,
            <<"professionalism", PyStr("Did the agent maintain professionalism throughout the call?")>> >>)

\* A rubric resolution that adds a custom mapping to the defaults.
ResolveCriteria_Merged(criteria) ==
  IF criteria = PyNone THEN default_criteria
  ELSE IF criteria.kind = "dict" THEN PyDict(default_criteria.val \o criteria.val)
  ELSE criteria

\* `if criteria is None: criteria = self.default_criteria()`
ResolveCriteria(criteria) ==
  IF criteria = PyNone THEN default_criteria ELSE criteria

\* The two interpolated parts of the prompt template; the rest of the
\* template is literal text.
create_audit_prompt(transcript, criteria) ==
  [criteria |-> Dumps(criteria), transcript |-> transcript]

\* A decode that checks the report's shape and tags what does not fit.
DecodeResponse_Validated(content) ==
  LET r == JsonLoads(content)
      failure == PyDict(<< <<"error", PyStr("Failed to parse API response")>>,
                           <<"raw_response", content>> >>)
  IN  CASE r.exc = "none" ->
             [exc |-> "none",
              val |-> IF DictHas(r.val, "overall_score") THEN r.val ELSE failure]
        [] r.exc = "JSONDecodeError" -> [exc |-> "none", val |-> failure]
        [] OTHER -> [exc |-> r.exc, val |-> PyNone]

\* The try/except around json.loads: the value analyze_transcript returns,
\* or the exception that leaves it.
DecodeResponse(content) ==
  LET r == JsonLoads(content)
  IN  CASE r.exc = "none" -> [exc |-> "none", val |-> r.val]
        [] r.exc = "JSONDecodeError" ->
             [exc |-> "none",
              val |-> PyDict(<< <<"error", PyStr("Failed to parse API response")>>,
                                <<"raw_response", content>> >>)]
        [] OTHER -> [exc |-> r.exc, val |-> PyNone]

(***************************************************************************)
(* werkzeug's secure_filename on a filename given by its parts: "/" is the *)
(* path separator, the words between are joined by "_", and leading and    *)
(* trailing dots and underscores are stripped.                             *)
(***************************************************************************)
StripParts == {".", "..", "_"}
RECURSIVE JoinWords(_)
JoinWords(ws) ==
  IF Len(ws) <= 1 THEN ws ELSE <<ws[1], "_">> \o JoinWords(Tail(ws))
RECURSIVE LStrip(_)
LStrip(ps) ==
  IF ps # <<>> /\ ps[1] \in StripParts THEN LStrip(Tail(ps)) ELSE ps
RECURSIVE RStrip(_)
RStrip(ps) ==
  IF ps # <<>> /\ ps[Len(ps)] \in StripParts
  THEN RStrip(SubSeq(ps, 1, Len(ps) - 1)) ELSE ps
secure_filename(parts) ==
  RStrip(LStrip(JoinWords(SelectSeq(parts, LAMBDA p : p # "/"))))

(***************************************************************************)
(* State                                                                   *)
(***************************************************************************)
VARIABLES
  api_key_storage,  \* session id -> API key (line 94)
  cookie,           \* browser -> the session_id of its session cookie, 0 if none
  submitted,        \* history: the i-th successful set_api_key, which made session id i
  uploads,          \* the upload folder: file name -> contents
  req               \* the /analyze requests in flight, by worker thread

vars == <<api_key_storage, cookie, submitted, uploads, req>>

NoForm == [filename |-> <<>>, content |-> "", text |-> ""]
Upload(name, content) == [filename |-> name, content |-> content, text |-> ""]
Pasted(text) == [filename |-> <<>>, content |-> "", text |-> text]
NoPrompt == [criteria |-> <<>>, transcript |-> ""]

Idle ==
  [pc |-> "idle", browser |-> "", sid |-> 0, api_key |-> "", form |-> NoForm,
   file_path |-> <<>>, transcript |-> "", criteria_text |-> PyText(<<>>),
   criteria |-> PyNone, prompt |-> NoPrompt, key_used |-> "", raw |-> PyNone,
   api_exc |-> "", analysis |-> PyNone, outcome |-> "", exc |-> "",
   stages |-> <<>>, calls |-> 0]

\* The response of a finished request: a rendered page or redirect ...
Finish(q, outcome) == [q EXCEPT !.pc = "done", !.outcome = outcome]
\* ... or an exception that no handler catches (HTTP 500).
Raise(q, exc) == [q EXCEPT !.pc = "done", !.outcome = "exception", !.exc = exc]

(***************************************************************************)
(* Inputs                                                                  *)
(***************************************************************************)
\* The most session ids uuid4 hands out in a run.
MaxKeys == 2

Keys == {"sk-1", "sk-2"}

ToneQuestion == PyStr("Was the agent's tone friendly?")
ToneCriteria == PyDict(<< <<"tone", ToneQuestion>> >>)
TwoCriteria ==
  PyDict(<< <<"tone", ToneQuestion>>, <<"pace", PyStr("Was the pace right?")>> >>)

\* The custom_criteria form field.
NoCriteriaText == PyText(<<>>)
JunkText == PyText(<<TJunk("not"), TJunk("valid"), TJunk("json")>>)
TruncatedText == PyText(<<LBRACE, TStr("tone"), COLON>>)
CriteriaTexts == {NoCriteriaText}
AllCriteriaTexts ==
  CriteriaTexts \cup
  { PyText(Dumps(ToneCriteria)), PyText(Dumps(TwoCriteria)), JunkText, TruncatedText,
    PyText(<<LBRACE, TStr("tone"), COLON, TStr("q"), COMMA, RBRACE>>),
    PyText(<<LBRACE, RBRACE>>), PyText(<<LBRACK, RBRACK>>),
    PyText(<<LBRACK, TStr("tone"), COMMA, TStr("pace"), RBRACK>>),
    PyText(<<TNum("0")>>), PyText(<<TNum("7")>>), PyText(<<TStr("tone")>>),
    PyText(<<TStr("")>>), PyText(<<TWord("true")>>), PyText(<<TWord("false")>>),
    PyText(<<TWord("null")>>) }

\* Reports the completion service may send, well formed and not.
ToneScore ==
  PyDict(<< <<"score", PyInt(7)>>, <<"assessment", PyStr("friendly")>>,
            <<"examples", PyList(<<PyStr("Hello, how can I help?")>>)>> >>)
GoodReport ==
  PyDict(<< <<"overall_score", PyInt(8)>>,
            <<"criteria_scores", PyDict(<< <<"tone", ToneScore>> >>)>>,
            <<"strengths", PyList(<<PyStr("polite"), PyStr("quick")>>)>>,
            <<"areas_for_improvement", PyList(<<>>)>>,
            <<"summary", PyStr("good call")>> >>)
SampleValues ==
  { GoodReport,
    \* missing fields
    PyDict(<< <<"overall_score", PyInt(8)>> >>),
    PyDict(<<>>),
    \* an extra field, a wrongly typed field
    PyDict(Append(GoodReport.val, <<"model", PyStr("gpt-4")>>)),
    PyDict(<< <<"overall_score", PyStr("high")>>,
              <<"criteria_scores", PyList(<<PyInt(1)>>)>> >>),
    PyDict(<< <<"overall_score", PyBool(TRUE)>>, <<"criteria_scores", PyDict(<<>>)>>,
              <<"strengths", PyNone>> >>),
    \* a report that has its own "error" key
    PyDict(Append(GoodReport.val, <<"error", PyStr("none")>>)),
    \* values that are not objects
    PyList(<<PyStr("error")>>), PyList(<<PyInt(1), PyNone>>),
    PyStr("error"), PyStr("good call"), PyInt(8), PyBool(FALSE), PyNone }

\* What client.chat.completions.create does: it raises, or it returns a
\* message whose content is a text or None.
Raised(exc) == [exc |-> exc, content |-> PyNone]
Returned(content) == [exc |-> "", content |-> content]
TransportErrors ==
  {Raised("AuthenticationError"), Raised("RateLimitError"), Raised("APIConnectionError")}
Completions ==
  {Raised("AuthenticationError"), Returned(PyText(Dumps(GoodReport)))}
AllCompletions ==
  Completions \cup TransportErrors
  \cup {Returned(PyText(Dumps(v))) : v \in SampleValues}
  \cup {Returned(JunkText), Returned(TruncatedText), Returned(PyText(<<>>)), Returned(PyNone),
        Returned(PyText(Dumps(GoodReport) \o <<RBRACE>>))}

\* The /analyze form: an uploaded file or pasted text.
Forms ==
  {Upload(<<"a.txt">>, "T1"), Upload(<<"..", "/", "a.txt">>, "T2"), Pasted("T3")}
AllForms ==
  Forms \cup {Pasted(""), Upload(<<"b.txt">>, "T1"), Upload(<<"a.txt">>, ""),
              Upload(<<"..">>, "T1")}

(***************************************************************************)
(* Routes                                                                  *)
(***************************************************************************)
\* POST /set_api_key from browser b with form field api_key = k.
SetApiKey(b, k) ==
  IF k = ""
  THEN UNCHANGED vars
  ELSE /\ Len(submitted) < MaxKeys
       /\ LET session_id == Len(submitted) + 1
          IN  /\ submitted' = Append(submitted, [by |-> b, key |-> k])
              /\ cookie' = [cookie EXCEPT ![b] = session_id]
              /\ api_key_storage' =
                   [s \in DOMAIN api_key_storage \cup {session_id} |->
                      IF s = session_id THEN k ELSE api_key_storage[s]]
       /\ UNCHANGED <<uploads, req>>

\* `'session_id' not in session or session['session_id'] not in api_key_storage`
NoCredential(sid) == sid = 0 \/ sid \notin DOMAIN api_key_storage

\* GET /audit: the form or a redirect to the index page; no state changes.
AuditForm(b) ==
  /\ b \in DOMAIN cookie
  /\ UNCHANGED vars

\* GET /logout from browser b.
Logout(b) ==
  /\ api_key_storage' =
       IF ~NoCredential(cookie[b])
       THEN [s \in DOMAIN api_key_storage \ {cookie[b]} |-> api_key_storage[s]]
       ELSE api_key_storage
  /\ cookie' = [cookie EXCEPT ![b] = 0]
  /\ UNCHANGED <<submitted, uploads, req>>

\* A lookup that takes a key of the store whatever the session.
StoredKey_Any(sid) ==
  api_key_storage[CHOOSE s \in DOMAIN api_key_storage :
                    \A t \in DOMAIN api_key_storage : s <= t]

\* line 129: `api_key_storage[session['session_id']]`
StoredKey(sid) == api_key_storage[sid]

\* POST /analyze, lines 126-145: the credential check, the key, and where the
\* transcript comes from.  The request carries the cookie b holds as it is sent.
Analyze_Begin(r, b, form) ==
  /\ req[r].pc = "idle"
  /\ LET q == [req[r] EXCEPT !.browser = b, !.sid = cookie[b], !.form = form]
     IN  req' = [req EXCEPT ![r] =
           IF NoCredential(cookie[b]) THEN Finish(q, "redirect_index")
           ELSE IF form.filename # <<>>
           THEN [q EXCEPT !.api_key = StoredKey(cookie[b]),
                          !.file_path = secure_filename(form.filename),
                          !.pc = "save"]
           ELSE [q EXCEPT !.api_key = StoredKey(cookie[b]),
                          !.transcript = form.text,
                          !.pc = "prepare"]]
  /\ UNCHANGED <<api_key_storage, cookie, submitted, uploads>>

\* line 139, file.save(file_path): an empty file name is the folder itself.
Analyze_Save(r) ==
  /\ req[r].pc = "save"
  /\ IF req[r].file_path = <<>>
     THEN /\ req' = [req EXCEPT ![r] = Raise(@, "IsADirectoryError")]
          /\ UNCHANGED uploads
     ELSE /\ uploads' =
               [f \in DOMAIN uploads \cup {req[r].file_path} |->
                  IF f = req[r].file_path THEN req[r].form.content ELSE uploads[f]]
          /\ req' = [req EXCEPT ![r].pc = "read"]
  /\ UNCHANGED <<api_key_storage, cookie, submitted>>

\* lines 140-141, open(file_path) and f.read()
Analyze_Read(r) ==
  /\ req[r].pc = "read"
  /\ req' = [req EXCEPT ![r] =
       IF req[r].file_path \notin DOMAIN uploads
       THEN Raise(@, "FileNotFoundError")
       ELSE [@ EXCEPT !.transcript = uploads[req[r].file_path], !.pc = "remove"]]
  /\ UNCHANGED <<api_key_storage, cookie, submitted, uploads>>

\* line 143, os.remove(file_path)
Analyze_Remove(r) ==
  /\ req[r].pc = "remove"
  /\ IF req[r].file_path \notin DOMAIN uploads
     THEN /\ req' = [req EXCEPT ![r] = Raise(@, "FileNotFoundError")]
          /\ UNCHANGED uploads
     ELSE /\ uploads' = [f \in DOMAIN uploads \ {req[r].file_path} |-> uploads[f]]
          /\ req' = [req EXCEPT ![r].pc = "prepare"]
  /\ UNCHANGED <<api_key_storage, cookie, submitted>>

\* lines 151-158: the custom criteria, or the JSONDecodeError of parsing them.
CustomCriteria(criteria_text) ==
  IF Truthy(criteria_text) THEN JsonLoads(criteria_text)
  ELSE [exc |-> "none", val |-> PyDict(<<>>)]

\* line 161: `custom_criteria if custom_criteria else None`
CriteriaArgument(custom_criteria) ==
  IF Truthy(custom_criteria) THEN custom_criteria ELSE PyNone

\* lines 22-36 of analyze_transcript: the rubric, the prompt, and the one call
\* of client.chat.completions.create, made with the key the client was built with.
IssueCompletion(q, criteria) ==
  [q EXCEPT !.criteria = ResolveCriteria(criteria),
            !.prompt = create_audit_prompt(q.transcript, ResolveCriteria(criteria)),
            !.key_used = q.api_key,
            !.calls = @ + 1,
            !.stages = @ \o <<"resolve", "build", "invoke">>,
            !.pc = "await"]

\* lines 147-161 and 20-36: from the transcript to the completion call.
Analyze_Prepare(r, criteria_text) ==
  /\ req[r].pc = "prepare"
  /\ LET q == [req[r] EXCEPT !.criteria_text = criteria_text]
         custom == CustomCriteria(criteria_text)
     IN  req' = [req EXCEPT ![r] =
           IF q.transcript = "" THEN Finish(req[r], "no_transcript")
           ELSE IF custom.exc # "none" THEN Finish(q, "invalid_criteria")
           ELSE IssueCompletion(q, CriteriaArgument(custom.val))]
  /\ UNCHANGED <<api_key_storage, cookie, submitted, uploads>>

\* lines 163-168: the page for the value analyze_transcript returned.
RenderAnalysis(q, analysis) ==
  LET has == ContainsError(analysis)
      a == [q EXCEPT !.analysis = analysis]
  IN  IF has.exc # "none" THEN Raise(a, has.exc)
      ELSE IF has.val
      THEN IF analysis.kind = "dict" THEN Finish(a, "analysis_error")
           ELSE Raise(a, "TypeError")
      ELSE IF RendersResults(analysis) THEN Finish(a, "results")
           ELSE Raise(a, "UndefinedError")

\* A handler that turns the exception into an error result for the page.
OnTransportError_Swallowed(q, exc) ==
  RenderAnalysis(q, PyDict(<< <<"error", PyStr(exc)>> >>))
\* A handler that issues the call again.
OnTransportError_Retry(q, exc) ==
  [q EXCEPT !.calls = @ + 1, !.stages = @ \o <<"invoke">>]

\* client.chat.completions.create raised: neither analyze_transcript nor the
\* route has a handler around the call, so the exception leaves the request.
OnTransportError(q, exc) == Raise(q, exc)

\* lines 29-43 and 163-168: the completion call ends, its content is decoded
\* and the page is rendered.  api_exc records what the call raised, if it did.
Analyze_Return(r, completion) ==
  /\ req[r].pc = "await"
  /\ LET failed == [req[r] EXCEPT !.api_exc = completion.exc]
         q == [req[r] EXCEPT !.raw = completion.content,
                             !.stages = @ \o <<"decode">>]
         decoded == DecodeResponse(completion.content)
     IN  req' = [req EXCEPT ![r] =
           IF completion.exc # "" THEN OnTransportError(failed, completion.exc)
           ELSE IF decoded.exc # "none" THEN Raise(q, decoded.exc)
           ELSE RenderAnalysis(q, decoded.val)]
  /\ UNCHANGED <<api_key_storage, cookie, submitted, uploads>>

\* The response is sent and the request context is gone.
Respond(r) ==
  /\ req[r].pc = "done"
  /\ req' = [req EXCEPT ![r] = Idle]
  /\ UNCHANGED <<api_key_storage, cookie, submitted, uploads>>

(***************************************************************************)
(* Specifications                                                          *)
(***************************************************************************)
EmptyMap == [s \in {} |-> ""]

\* Two browsers and one worker thread: a request in flight while its own or
\* the other browser sets keys and logs out.
Init ==
  /\ api_key_storage = EmptyMap
  /\ cookie = [b \in {"b1", "b2"} |-> 0]
  /\ submitted = <<>>
  /\ uploads = EmptyMap
  /\ req = [r \in {"w1"} |-> Idle]

Next ==
  \/ \E b \in DOMAIN cookie, k \in Keys \cup {""} : SetApiKey(b, k)
  \/ \E b \in DOMAIN cookie : AuditForm(b)
  \/ \E b \in DOMAIN cookie : Logout(b)
  \/ \E r \in DOMAIN req, b \in DOMAIN cookie, form \in Forms : Analyze_Begin(r, b, form)
  \/ \E r \in DOMAIN req : Analyze_Save(r)
  \/ \E r \in DOMAIN req : Analyze_Read(r)
  \/ \E r \in DOMAIN req : Analyze_Remove(r)
  \/ \E r \in DOMAIN req, t \in CriteriaTexts : Analyze_Prepare(r, t)
  \/ \E r \in DOMAIN req, c \in Completions : Analyze_Return(r, c)
  \/ \E r \in DOMAIN req : Respond(r)

Spec == Init /\ [][Next]_vars

\* One browser and two worker threads: two /analyze requests at once.
InitUploads ==
  /\ api_key_storage = EmptyMap
  /\ cookie = [b \in {"b1"} |-> 0]
  /\ submitted = <<>>
  /\ uploads = EmptyMap
  /\ req = [r \in {"w1", "w2"} |-> Idle]

SpecUploads == InitUploads /\ [][Next]_vars

\* One browser and one worker thread, with every input.
InitEngine ==
  /\ api_key_storage = EmptyMap
  /\ cookie = [b \in {"b1"} |-> 0]
  /\ submitted = <<>>
  /\ uploads = EmptyMap
  /\ req = [r \in {"w1"} |-> Idle]

NextEngine ==
  \/ \E b \in DOMAIN cookie, k \in Keys \cup {""} : SetApiKey(b, k)
  \/ \E b \in DOMAIN cookie : AuditForm(b)
  \/ \E b \in DOMAIN cookie : Logout(b)
  \/ \E r \in DOMAIN req, b \in DOMAIN cookie, form \in AllForms : Analyze_Begin(r, b, form)
  \/ \E r \in DOMAIN req : Analyze_Save(r)
  \/ \E r \in DOMAIN req : Analyze_Read(r)
  \/ \E r \in DOMAIN req : Analyze_Remove(r)
  \/ \E r \in DOMAIN req, t \in AllCriteriaTexts : Analyze_Prepare(r, t)
  \/ \E r \in DOMAIN req, c \in AllCompletions : Analyze_Return(r, c)
  \/ \E r \in DOMAIN req : Respond(r)

SpecEngine == InitEngine /\ [][NextEngine]_vars

(***************************************************************************)
(* Properties                                                              *)
(***************************************************************************)
Range(s) == {s[i] : i \in 1..Len(s)}
\* The request's completion call returned and its content went to json.loads.
Decoded(q) == "decode" \in Range(q.stages)
\* The request's prompt was constructed.
PromptBuilt(q) == "build" \in Range(q.stages)
IsPrefix(s, t) == Len(s) <= Len(t) /\ s = SubSeq(t, 1, Len(s))

\* C1: for every raw response the completion service returns (unparseable
\* text, truncated text, an absent body), the decode step raises nothing and
\* yields the decoded value or a tagged failure whose raw_response is the raw
\* text unchanged.
C1_DecodeNeverThrows ==
  \A r \in DOMAIN req :
    Decoded(req[r]) =>
      LET d == DecodeResponse(req[r].raw)
          parsed == JsonLoads(req[r].raw)
      IN  /\ d.exc = "none"
          /\ \/ parsed.exc = "none" /\ d.val = parsed.val
             \/ /\ DictHas(d.val, "error")
                /\ DictHas(d.val, "raw_response")
                /\ DictGet(d.val, "raw_response") = req[r].raw

\* A custom rubric text is well formed when it parses to a mapping.
WellFormedRubric(text) ==
  JsonLoads(text).exc = "none" /\ JsonLoads(text).val.kind = "dict"

\* C2: a request whose custom_criteria text is supplied and is not a mapping
\* (it does not parse, or parses to a list, number, string, boolean or null)
\* ends with the invalid-criteria response and no completion call.
C2_MalformedRubricRejected ==
  \A r \in DOMAIN req :
    ( /\ req[r].pc \in {"await", "done"}
      /\ Truthy(req[r].criteria_text)
      /\ ~WellFormedRubric(req[r].criteria_text) )
    => /\ req[r].pc = "done"
       /\ req[r].outcome = "invalid_criteria"
       /\ req[r].calls = 0

DefaultNames ==
  <<"greeting", "listening", "problem_solving", "knowledge", "empathy", "clarity",
    "resolution", "closing", "adherence_to_protocol", "professionalism">>
SampleRubrics == {ToneCriteria, TwoCriteria}

\* C3: the rubric in the prompt is the ten default criteria, each with a
\* non-empty question, when no custom rubric is supplied, and is the supplied
\* mapping of N >= 1 entries, unchanged and unmerged, when one is.
C3_RubricResolution ==
  \A r \in DOMAIN req :
    PromptBuilt(req[r]) =>
      LET c == req[r].criteria
      IN  /\ req[r].prompt.transcript = req[r].transcript
          /\ req[r].criteria_text = NoCriteriaText =>
               /\ c.kind = "dict"
               /\ [i \in 1..Len(c.val) |-> c.val[i][1]] = DefaultNames
               /\ \A i \in 1..Len(c.val) :
                    c.val[i][2].kind = "str" /\ c.val[i][2].val # ""
               /\ req[r].prompt.criteria = Dumps(c)
          /\ \A m \in SampleRubrics :
               req[r].criteria_text = PyText(Dumps(m)) =>
                 c = m /\ req[r].prompt.criteria = req[r].criteria_text.val

C3_Witness ==
  \E r \in DOMAIN req :
    /\ req[r].pc = "await"
    /\ req[r].criteria_text = PyText(Dumps(TwoCriteria))
    /\ req[r].criteria = TwoCriteria

\* C4: when the completion call raises a transport error the request ends with
\* that exception: one call, no decode, no analysis, no page rendered.
C4_TransportErrorPropagates ==
  \A r \in DOMAIN req :
    req[r].api_exc # "" =>
      /\ req[r].pc = "done"
      /\ req[r].outcome = "exception"
      /\ req[r].exc = req[r].api_exc
      /\ req[r].calls = 1
      /\ ~Decoded(req[r])
      /\ req[r].raw = PyNone
      /\ req[r].analysis = PyNone

C4_Witness ==
  \E r \in DOMAIN req :
    /\ req[r].pc = "done"
    /\ req[r].api_exc = "AuthenticationError"
    /\ req[r].exc = "AuthenticationError"

StageOrder == <<"resolve", "build", "invoke", "decode">>
EarlyRejections == {"redirect_index", "no_transcript", "invalid_criteria"}

\* C5: the stages of a request run in the order resolve, build, invoke,
\* decode; a request that reaches the engine makes exactly one completion
\* call, whether the call fails or its response fails to decode, and a
\* request rejected earlier makes none.
C5_StageOrderOneCall ==
  \A r \in DOMAIN req :
    LET q == req[r]
    IN  /\ IsPrefix(q.stages, StageOrder)
        /\ q.calls = IF "invoke" \in Range(q.stages) THEN 1 ELSE 0
        /\ (q.pc = "done" /\ q.outcome \in EarlyRejections) =>
             q.calls = 0 /\ q.stages = <<>>
        /\ (q.prompt # NoPrompt \/ q.api_exc # "" \/ q.pc = "await") => q.calls = 1

C5_Witness ==
  \E r \in DOMAIN req :
    /\ req[r].pc = "done"
    /\ req[r].raw = JunkText
    /\ req[r].outcome = "analysis_error"
    /\ req[r].stages = StageOrder
    /\ req[r].calls = 1

\* C6: decoding the serialization of a value, well formed as a report or
\* not, returns that value: nothing added, removed, defaulted or validated.
C6_DecodeRoundTrip ==
  \A r \in DOMAIN req :
    Decoded(req[r]) =>
      \A v \in SampleValues :
        req[r].raw = PyText(Dumps(v)) => req[r].analysis = v

C6_Witness ==
  \E r \in DOMAIN req :
    /\ req[r].raw = PyText(Dumps(GoodReport))
    /\ req[r].analysis = GoodReport
    /\ req[r].outcome = "results"

\* C7: while a browser is logged out (it holds no session cookie),
\* api_key_storage holds no key that this browser submitted.
C7_KeyReleasedOnLogout ==
  \A b \in DOMAIN cookie :
    cookie[b] = 0 =>
      \A s \in DOMAIN api_key_storage : submitted[s].by # b

\* C8: requests that upload a file are independent: none fails because the
\* file is gone, each reads and builds its prompt from the contents it
\* uploaded, and no file is left once every request has finished.
C8_ConcurrentUploadsIndependent ==
  /\ \A r \in DOMAIN req :
       req[r].form.filename # <<>> =>
         /\ req[r].exc # "FileNotFoundError"
         /\ req[r].pc = "remove" => req[r].transcript = req[r].form.content
         /\ PromptBuilt(req[r]) => req[r].prompt.transcript = req[r].form.content
  /\ (\A r \in DOMAIN req : req[r].pc \in {"idle", "done"}) => DOMAIN uploads = {}

\* A step in which request r issues its completion call.
CallIssued(r) == req'[r].calls > req[r].calls
\* A step in which /analyze admits or turns away request r.
Admitted(r) == req[r].pc = "idle" /\ req'[r].pc # "idle"

\* A request without a stored credential is redirected and makes no call.
GatingRedirects ==
  /\ [][\A r \in DOMAIN req :
          (Admitted(r) /\ NoCredential(req'[r].sid)) =>
            req'[r].pc = "done" /\ req'[r].outcome = "redirect_index"]_vars
  /\ [](\A r \in DOMAIN req :
          req[r].outcome = "redirect_index" => req[r].calls = 0 /\ req[r].stages = <<>>)

\* A stored key is removed or changed only by the logout of the browser whose
\* cookie names it.
SessionsIsolated ==
  [][\A s \in DOMAIN api_key_storage :
       (s \notin DOMAIN api_key_storage' \/ api_key_storage'[s] # api_key_storage[s])
         => \E b \in DOMAIN cookie : cookie[b] = s /\ cookie'[b] = 0]_vars

\* C9 as stated: a completion call is issued only for a request whose session
\* id is in api_key_storage as the call is issued, with the key that session
\* submitted; requests without a credential are redirected; sessions are
\* isolated.
C9_CredentialGating ==
  /\ [][\A r \in DOMAIN req :
          CallIssued(r) =>
            /\ req[r].sid \in DOMAIN api_key_storage
            /\ req'[r].key_used = submitted[req[r].sid].key]_vars
  /\ GatingRedirects
  /\ SessionsIsolated

\* C9 amended: a completion call is issued only for a request whose session id
\* was in api_key_storage when /analyze checked it, with the key stored for
\* that session id at that moment, which is the key that session submitted; a
\* logout while the request is in flight does not stop the call.
C9_CredentialGatingAtCheck ==
  /\ [][\A r \in DOMAIN req :
          (Admitted(r) /\ ~NoCredential(req'[r].sid)) =>
            /\ req'[r].sid = cookie[req'[r].browser]
            /\ req'[r].api_key = api_key_storage[req'[r].sid]]_vars
  /\ [][\A r \in DOMAIN req :
          CallIssued(r) =>
            /\ req[r].sid \in 1..Len(submitted)
            /\ submitted[req[r].sid].by = req[r].browser
            /\ req'[r].key_used = submitted[req[r].sid].key]_vars
  /\ GatingRedirects
  /\ SessionsIsolated

C9_Witness ==
  \E r \in DOMAIN req :
    /\ req[r].pc = "await"
    /\ req[r].sid \notin DOMAIN api_key_storage
    /\ req[r].key_used = submitted[req[r].sid].key
    /\ \E s \in DOMAIN api_key_storage : api_key_storage[s] # req[r].key_used

\* C10: the value analyze_transcript returns has a top-level "error" key
\* exactly when the payload failed to parse, so every parsed payload gets the
\* results page and only unparsed ones get the analysis-error page.
C10_ErrorTagUnambiguous ==
  \A r \in DOMAIN req :
    (Decoded(req[r]) /\ req[r].pc = "done") =>
      LET parsed == JsonLoads(req[r].raw).exc = "none"
      IN  /\ parsed => (~DictHas(req[r].analysis, "error") /\ req[r].outcome = "results")
          /\ req[r].outcome = "analysis_error" => ~parsed
=============================================================================
